---- MODULE Spec2Model ----
(***************************************************************************)
(* Model of the semver catalog template (alpha/template/semver/semver.go):  *)
(* Render -> getVersionsFromStandardChannels -> generateChannels ->         *)
(* linkChannels.  The state is one render invocation: the template (three   *)
(* tiers of bundles and the two stream flags), the per-tier version maps,   *)
(* the unlinked channels, the placement list, the highwater marker and the  *)
(* value Render returns.                                                    *)
(*                                                                          *)
(* Inputs.  Every bundle reference of the template renders successfully to  *)
(* a bundle of one package with exactly one olm.package property and a      *)
(* valid version, and no tier lists a bundle twice; the error returns of    *)
(* getVersionsFromChannel (lines 141-173) are therefore not taken.          *)
(***************************************************************************)
EXTENDS Integers, Sequences, FiniteSets, TLC

\* ------------------------------------------------------------------ bounds
\* Largest number of (tier, bundle) references in one template.
MaxBundles == 3
\* The same, for the specification that renders the template twice.
MaxRerunBundles == 2

\* ---------------------------------------------------------------- versions
\* semver.Version of github.com/blang/semver/v4: Pre is the pre-release tag
\* ("" when absent), Build the build metadata ("" when absent).
V(x, y, z, pre, build) ==
  [Major |-> x, Minor |-> y, Patch |-> z, Pre |-> pre, Build |-> build]

\* The rendered bundles (cfg.Bundles), one per version.
Catalogue ==
  { V(0, 0, 0, "", ""), V(1, 0, 0, "", ""), V(1, 0, 0, "", "build1"),
    V(1, 0, 1, "", ""), V(1, 1, 0, "alpha", ""), V(1, 1, 0, "", "") }

\* semver.Version.Compare: major, minor, patch, then a version without a
\* pre-release tag is greater than one with a tag; build metadata is ignored.
Compare(v, o) ==
  IF v.Major # o.Major THEN (IF v.Major > o.Major THEN 1 ELSE -1)
  ELSE IF v.Minor # o.Minor THEN (IF v.Minor > o.Minor THEN 1 ELSE -1)
  ELSE IF v.Patch # o.Patch THEN (IF v.Patch > o.Patch THEN 1 ELSE -1)
  ELSE IF v.Pre = o.Pre THEN 0
  ELSE IF v.Pre = "" THEN 1
  ELSE IF o.Pre = "" THEN -1
  ELSE 0

LT(v, o) == Compare(v, o) = -1
GT(v, o) == Compare(v, o) = 1
EQ(v, o) == Compare(v, o) = 0

\* semver.Version.String
String(v) ==
  ToString(v.Major) \o "." \o ToString(v.Minor) \o "." \o ToString(v.Patch)
    \o (IF v.Pre # "" THEN "-" \o v.Pre ELSE "")
    \o (IF v.Build # "" THEN "+" \o v.Build ELSE "")

\* Mutant: the build metadata is left in the string.
stripBuildMetadataKept(v) == String(v)

stripBuildMetadata(v) == String([v EXCEPT !.Build = ""])

getMinorVersion(v) == V(v.Major, v.Minor, 0, "", "")
getMajorVersion(v) == V(v.Major, 0, 0, "", "")

\* Name of the bundle rendered for a version, and its inverse (the
\* olm.package property of the rendered bundle).
BundleName(v) == "op.v" \o String(v)
BundleNames == {BundleName(v) : v \in Catalogue}
VersionByName ==
  [name \in BundleNames |-> CHOOSE v \in Catalogue : BundleName(v) = name]
VersionOf(name) == VersionByName[name]

\* ------------------------------------------------------------------- tiers
candidateChannelArchetype == "candidate"
fastChannelArchetype == "fast"
stableChannelArchetype == "stable"
Archetypes ==
  {candidateChannelArchetype, fastChannelArchetype, stableChannelArchetype}

channelPriorities ==
  (candidateChannelArchetype :> 0) @@ (fastChannelArchetype :> 1)
    @@ (stableChannelArchetype :> 2)

\* The two stream kinds sort apart in linkChannels; which one sorts first
\* changes no edge, since every kind change resets the scan.
minorStreamType == "minor"
majorStreamType == "major"
streamTypePriorities == (minorStreamType :> 0) @@ (majorStreamType :> 1)

\* sort.Sort(byChannelPriority(...)) over the keys of channelPriorities
archetypesByPriority ==
  <<candidateChannelArchetype, fastChannelArchetype, stableChannelArchetype>>

channelNameFromMinor(prefix, version) ==
  prefix \o "-v" \o ToString(version.Major) \o "." \o ToString(version.Minor)

channelNameFromMajor(prefix, version) ==
  prefix \o "-v" \o ToString(version.Major)

\* ------------------------------------------------------------------- state
VARIABLES
  sv,                    \* the semverTemplate: Bundles, flags, defaultChannel
  pc,                    \* "start", "generate", "link", "done", "error", "panic"
  channelBundleVersions, \* archetype -> (bundle name -> version)
  unlinkedChannels,      \* channels in the order they were created
  unassociatedEdges,     \* the entryTuple list
  hwc,                   \* the highwaterChannel
  out,                   \* what Render returns: channels and default channel
  err,                   \* the error Render returns
  prevOut                \* what the previous render of this template returned

vars ==
  <<sv, pc, channelBundleVersions, unlinkedChannels, unassociatedEdges, hwc,
    out, err, prevOut>>

NoOutput == [Channels |-> <<>>, DefaultChannel |-> "", Valid |-> FALSE]
NoError == [kind |-> "nil", tier |-> ""]
NoVersions == [a \in Archetypes |-> <<>>]

\* hwc := highwaterChannel{archetype: archetypesByPriority[0], version: 0.0.0}
InitialHwc ==
  [archetype |-> archetypesByPriority[1], version |-> V(0, 0, 0, "", ""),
   name |-> ""]

\* Sets of at most k elements of S.
RECURSIVE SubsetsUpTo(_, _)
SubsetsUpTo(S, k) ==
  IF k = 0 THEN {{}}
  ELSE LET P == SubsetsUpTo(S, k - 1)
       IN  P \cup {p \cup {s} : p \in P, s \in S}

Slots == Archetypes \X BundleNames

TemplateOf(slots, major, minor) ==
  [Bundles |-> [a \in Archetypes |-> {s[2] : s \in {t \in slots : t[1] = a}}],
   GenerateMajorChannels |-> major,
   GenerateMinorChannels |-> minor,
   defaultChannel |-> ""]

InitWith(k) ==
  /\ \E slots \in SubsetsUpTo(Slots, k), major \in BOOLEAN, minor \in BOOLEAN :
       sv = TemplateOf(slots, major, minor)
  /\ pc = "start"
  /\ channelBundleVersions = NoVersions
  /\ unlinkedChannels = <<>>
  /\ unassociatedEdges = <<>>
  /\ hwc = InitialHwc
  /\ out = NoOutput
  /\ err = NoError
  /\ prevOut = NoOutput

Init == InitWith(MaxBundles)

\* ------------------------------------------------- Render, lines 19-62
\* Lines 29-50: the template names no bundle, so nothing is rendered and
\* Render returns the "no bundles specified" error.
RenderNoBundles ==
  /\ pc = "start"
  /\ \A a \in Archetypes : sv.Bundles[a] = {}
  /\ pc' = "error"
  /\ err' = [kind |-> "noBundles", tier |-> ""]
  /\ UNCHANGED <<sv, channelBundleVersions, unlinkedChannels,
                 unassociatedEdges, hwc, out, prevOut>>

\* getVersionsFromChannel for references that all resolve: bundle name ->
\* version of its olm.package property.
getVersionsFromChannel(semverBundles) ==
  [b \in semverBundles |-> VersionOf(b)]

\* TRUE when the function returns an error: some stripped version string is
\* seen a second time.
withoutBuildMetadataConflict(versions) ==
  \E a \in DOMAIN versions, b \in DOMAIN versions :
    /\ a # b
    /\ stripBuildMetadata(versions[a]) = stripBuildMetadata(versions[b])

\* TRUE when validateVersions returns an error.
validateVersions(versions) ==
  IF Cardinality(DOMAIN versions) = 0 THEN FALSE
  ELSE withoutBuildMetadataConflict(versions)

\* The tiers in the order getVersionsFromStandardChannels extracts them.
ExtractionOrder ==
  <<candidateChannelArchetype, fastChannelArchetype, stableChannelArchetype>>

\* Lines 52-55 and getVersionsFromStandardChannels: extract and validate
\* candidate, fast, stable in turn; the first tier that fails validation ends
\* the render with its error.
GetVersionsFromStandardChannels ==
  /\ pc = "start"
  /\ \E a \in Archetypes : sv.Bundles[a] # {}
  /\ LET bdm == [a \in Archetypes |-> getVersionsFromChannel(sv.Bundles[a])]
         bad == {i \in 1..3 : validateVersions(bdm[ExtractionOrder[i]])}
     IN  IF bad # {}
         THEN /\ pc' = "error"
              /\ err' = [kind |-> "ambiguous",
                         tier |-> ExtractionOrder[
                                    CHOOSE i \in bad : \A j \in bad : i <= j]]
              /\ UNCHANGED channelBundleVersions
         ELSE /\ pc' = "generate"
              /\ channelBundleVersions' = bdm
              /\ UNCHANGED err
  /\ UNCHANGED <<sv, unlinkedChannels, unassociatedEdges, hwc, out, prevOut>>

\* ------------------------------------------- generateChannels, 187-261
\* sort.Slice(bundleNamesByVersion, ... LT ...): names by ascending version.
\* Validated tiers hold no two names of equal precedence, so the order is
\* unique; among equal elements (unreachable) one minimal element is taken.
RECURSIVE SortNames(_, _)
SortNames(bundles, names) ==
  IF names = {} THEN <<>>
  ELSE LET b == CHOOSE x \in names :
                  \A y \in names : ~LT(bundles[y], bundles[x])
       IN  <<b>> \o SortNames(bundles, names \ {b})

\* Mutant: the names are walked in descending version order.
RECURSIVE SortNamesDescending(_, _)
SortNamesDescending(bundles, names) ==
  IF names = {} THEN <<>>
  ELSE LET b == CHOOSE x \in names :
                  \A y \in names : ~LT(bundles[x], bundles[y])
       IN  <<b>> \o SortNamesDescending(bundles, names \ {b})

bundleNamesDescending(bundles) == SortNamesDescending(bundles, DOMAIN bundles)

bundleNamesByVersion(bundles) == SortNames(bundles, DOMAIN bundles)

\* The order of the two nested loops at 204 and 226: tiers by priority,
\* bundles by version; an empty tier contributes nothing (line 207).
RECURSIVE WalkFrom(_, _)
WalkFrom(semverChannels, i) ==
  IF i > Len(archetypesByPriority) THEN <<>>
  ELSE LET archetype == archetypesByPriority[i]
           names == bundleNamesByVersion(semverChannels[archetype])
       IN  [k \in 1..Len(names) |-> <<archetype, names[k]>>]
             \o WalkFrom(semverChannels, i + 1)

Walk(semverChannels) == WalkFrom(semverChannels, 1)

\* highwaterChannel.gt: tier priority first, then version.
gt(h, ih) ==
  \/ channelPriorities[h.archetype] > channelPriorities[ih.archetype]
  \/ /\ channelPriorities[h.archetype] = channelPriorities[ih.archetype]
     /\ GT(h.version, ih.version)

PackageName == "op"

newChannel(pkgName, chName) ==
  [Name |-> chName, Package |-> pkgName, Entries |-> <<>>]

\* Position of the channel named name in the channel map, 0 when absent.
ChannelIndex(chans, name) ==
  IF \E i \in 1..Len(chans) : chans[i].Name = name
  THEN CHOOSE i \in 1..Len(chans) : chans[i].Name = name
  ELSE 0

\* channelNameKeys: the stream kinds the template enables (lines 229-235).
channelNameKeys(template) ==
  (IF template.GenerateMajorChannels THEN {majorStreamType} ELSE {})
    \cup (IF template.GenerateMinorChannels THEN {minorStreamType} ELSE {})

\* Every order in which a range over a map with these keys can visit them.
\* channelNameKeys has at most two keys, so these are all the enumerations.
KeyOrders(keys) ==
  {s \in [1..Cardinality(keys) -> keys] :
     \A i, j \in 1..Cardinality(keys) : s[i] = s[j] => i = j}

channelNameFor(cKey, archetype, version) ==
  IF cKey = majorStreamType THEN channelNameFromMajor(archetype, version)
  ELSE channelNameFromMinor(archetype, version)

\* Body of the loop at 237-251 for one (kind, channel name) of one bundle.
PlaceInChannel(st, archetype, cKey, bundleName, version) ==
  LET cName == channelNameFor(cKey, archetype, version)
      found == ChannelIndex(st.chans, cName)
      ok == found # 0
      chans1 == IF ok THEN st.chans
                ELSE Append(st.chans, newChannel(PackageName, cName))
      i == IF ok THEN found ELSE Len(chans1)
      hwcCandidate ==
        [archetype |-> archetype, version |-> version, name |-> cName]
      hwc1 == IF ~ok /\ gt(hwcCandidate, st.hwc) THEN hwcCandidate ELSE st.hwc
      chans2 == [chans1 EXCEPT ![i].Entries =
                   Append(@, [Name |-> bundleName, Replaces |-> "",
                              Skips |-> {}])]
  IN  [chans |-> chans2,
       hwc |-> hwc1,
       edges |-> Append(st.edges,
                   [arch |-> archetype, kind |-> cKey, parent |-> cName,
                    name |-> bundleName, version |-> version,
                    index |-> Len(chans2[i].Entries) - 1])]

\* The loop at 237 for one bundle, visiting the kinds in the given order.
RECURSIVE PlaceBundle(_, _, _, _, _)
PlaceBundle(st, archetype, bundleName, version, order) ==
  IF order = <<>> THEN st
  ELSE PlaceBundle(
         PlaceInChannel(st, archetype, Head(order), bundleName, version),
         archetype, bundleName, version, Tail(order))

\* The loops at 204-253 from the i-th bundle of the walk on; orders[i] is the
\* order in which the range at 237 visits the kinds for that bundle.
RECURSIVE GenerateFrom(_, _, _, _, _)
GenerateFrom(semverChannels, walk, orders, i, st) ==
  IF i > Len(walk) THEN st
  ELSE LET archetype == walk[i][1]
           bundleName == walk[i][2]
       IN  GenerateFrom(semverChannels, walk, orders, i + 1,
             PlaceBundle(st, archetype, bundleName,
                         semverChannels[archetype][bundleName], orders[i]))

\* ----------------------------------------------- linkChannels, 263-335
\* The less function of the sort.Slice at 267-275.
EntryLess(a, b) ==
  IF channelPriorities[a.arch] # channelPriorities[b.arch]
  THEN channelPriorities[a.arch] < channelPriorities[b.arch]
  ELSE IF streamTypePriorities[a.kind] # streamTypePriorities[b.kind]
  THEN streamTypePriorities[a.kind] < streamTypePriorities[b.kind]
  ELSE LT(a.version, b.version)

\* sort.Slice(entries, ...): the placements of a validated template are
\* pairwise ordered by EntryLess (two placements of one tier and kind have
\* versions of different precedence), so the sorted order is unique.
RECURSIVE SortTuples(_)
SortTuples(tuples) ==
  IF tuples = {} THEN <<>>
  ELSE LET t == CHOOSE x \in tuples : \A y \in tuples : ~EntryLess(y, x)
       IN  <<t>> \o SortTuples(tuples \ {t})

SortEntries(entries) == SortTuples({entries[i] : i \in 1..Len(entries)})

archChange(prevTuple, curTuple) == curTuple.arch # prevTuple.arch
kindChange(prevTuple, curTuple) == curTuple.kind # prevTuple.kind
xChange(prevTuple, curTuple) ==
  ~EQ(getMajorVersion(prevTuple.version), getMajorVersion(curTuple.version))
yChange(prevTuple, curTuple) ==
  ~EQ(getMinorVersion(prevTuple.version), getMinorVersion(curTuple.version))

\* Mutant: every transition, a Z change included, sets the edges of the
\* previous entry.
ClosesStreamAlways(prevTuple, curTuple) ==
  \/ archChange(prevTuple, curTuple)
  \/ kindChange(prevTuple, curTuple)
  \/ ~EQ(prevTuple.version, curTuple.version)

\* Line 293: the previous entry closes its Y-stream.
ClosesStream(prevTuple, curTuple) ==
  \/ archChange(prevTuple, curTuple)
  \/ kindChange(prevTuple, curTuple)
  \/ xChange(prevTuple, curTuple)
  \/ yChange(prevTuple, curTuple)

\* Mutant: a major version change does not reset skips and replaces.
BreaksChainNoMajor(prevTuple, curTuple) ==
  \/ archChange(prevTuple, curTuple)
  \/ kindChange(prevTuple, curTuple)

\* Line 306: skips and replaces are not kept over this transition.
BreaksChain(prevTuple, curTuple) ==
  \/ archChange(prevTuple, curTuple)
  \/ kindChange(prevTuple, curTuple)
  \/ xChange(prevTuple, curTuple)

\* Mutant: the replaces target is left in the skips.
SkipsOfKeepingReplaces(replaces, curSkips) == curSkips

\* Lines 299-303 (and 324-328): the skips of a closing entry.  The sorted
\* slice that sets.String.List returns is kept as the set of its elements.
SkipsOf(replaces, curSkips) ==
  IF replaces \in curSkips THEN curSkips \ {replaces} ELSE curSkips

\* Lines 295-303 (and 320-328): set the edges of the entry of a placement in
\* place, by channel name and index.
SetEdges(chans, tuple, prevZMax, curSkips) ==
  [chans EXCEPT ![ChannelIndex(chans, tuple.parent)].Entries[tuple.index + 1] =
     [@ EXCEPT !.Replaces = prevZMax, !.Skips = SkipsOf(prevZMax, curSkips)]]

\* Mutant: the anchor is the current entry instead of the previous one.
NextPrevZMaxCurrent(prevTuple, curTuple, prevZMax) ==
  IF archChange(prevTuple, curTuple) \/ kindChange(prevTuple, curTuple)
       \/ xChange(prevTuple, curTuple)
  THEN ""
  ELSE IF yChange(prevTuple, curTuple) THEN curTuple.name
  ELSE prevZMax

\* Lines 306-315: the anchor carried to the next pair.
NextPrevZMax(prevTuple, curTuple, prevZMax) ==
  IF BreaksChain(prevTuple, curTuple) THEN ""
  ELSE IF yChange(prevTuple, curTuple) THEN prevTuple.name
  ELSE prevZMax

\* Lines 306-315: the skips carried to the next pair.
NextSkips(prevTuple, curTuple, curSkips) ==
  IF BreaksChain(prevTuple, curTuple) THEN {}
  ELSE curSkips \cup {prevTuple.name}

\* Mutant: the last entry accumulation at 318-328 is left out.
RECURSIVE LinkFromNoLast(_, _, _, _, _)
LinkFromNoLast(entries, chans, index, prevZMax, curSkips) ==
  IF index >= Len(entries)
  THEN chans
  ELSE LET prevTuple == entries[index]
           curTuple == entries[index + 1]
           chans1 ==
             IF archChange(prevTuple, curTuple) \/ kindChange(prevTuple, curTuple)
                  \/ xChange(prevTuple, curTuple) \/ yChange(prevTuple, curTuple)
             THEN [chans EXCEPT
                     ![ChannelIndex(chans, prevTuple.parent)]
                        .Entries[prevTuple.index + 1] =
                       [@ EXCEPT !.Replaces = prevZMax,
                                 !.Skips = curSkips \ {prevZMax}]]
             ELSE chans
           broken == \/ archChange(prevTuple, curTuple)
                     \/ kindChange(prevTuple, curTuple)
                     \/ xChange(prevTuple, curTuple)
       IN  LinkFromNoLast(entries, chans1, index + 1,
             IF broken THEN ""
             ELSE IF yChange(prevTuple, curTuple) THEN prevTuple.name
             ELSE prevZMax,
             IF broken THEN {} ELSE curSkips \cup {prevTuple.name})

\* The loop at 280-316 from the pair (entries[index], entries[index + 1]) on,
\* then the last entry accumulation at 318-328.
RECURSIVE LinkFrom(_, _, _, _, _)
LinkFrom(entries, chans, index, prevZMax, curSkips) ==
  IF index >= Len(entries)
  THEN SetEdges(chans, entries[Len(entries)], prevZMax, curSkips)
  ELSE LET prevTuple == entries[index]
           curTuple == entries[index + 1]
           chans1 == IF ClosesStream(prevTuple, curTuple)
                     THEN SetEdges(chans, prevTuple, prevZMax, curSkips)
                     ELSE chans
       IN  LinkFrom(entries, chans1, index + 1,
                    NextPrevZMax(prevTuple, curTuple, prevZMax),
                    NextSkips(prevTuple, curTuple, curSkips))

\* The channel map after linkChannels has set the edges (entries sorted).
linkChannels(chans, entries) == LinkFrom(entries, chans, 1, "", {})

\* The orders in which a range over a Go map visits its keys.  The language
\* leaves the order open; the runtime starts at a random slot and wraps
\* around, and a map of up to eight keys that never had a key deleted
\* keeps them in insertion order, so the orders an execution produces are the
\* rotations of the insertion order.
MapRange(chans) ==
  {[i \in 1..Len(chans) |-> chans[((i + start - 2) % Len(chans)) + 1]] :
     start \in 1..Len(chans)}

\* generateChannels up to line 256: the unlinked channels, the placements,
\* the highwater marker and the default channel.
GenerateChannels ==
  /\ pc = "generate"
  /\ LET walk == Walk(channelBundleVersions)
     IN  \E orders \in [1..Len(walk) -> KeyOrders(channelNameKeys(sv))] :
           LET st == GenerateFrom(channelBundleVersions, walk, orders, 1,
                       [chans |-> <<>>, hwc |-> InitialHwc, edges |-> <<>>])
           IN  /\ unlinkedChannels' = st.chans
               /\ unassociatedEdges' = st.edges
               /\ hwc' = st.hwc
               /\ sv' = [sv EXCEPT !.defaultChannel = st.hwc.name]
  /\ pc' = "link"
  /\ UNCHANGED <<channelBundleVersions, out, err, prevOut>>

\* Line 258 with linkChannels, and lines 58-61 of Render.  With no placement
\* the index expression entries[len(entries)-1] at line 319 panics before
\* anything is returned.
LinkChannels ==
  /\ pc = "link"
  /\ IF Len(unassociatedEdges) = 0
     THEN /\ pc' = "panic"
          /\ UNCHANGED <<unlinkedChannels, unassociatedEdges, out>>
     ELSE LET entries == SortEntries(unassociatedEdges)
              linked == linkChannels(unlinkedChannels, entries)
          IN  /\ unassociatedEdges' = entries
              /\ unlinkedChannels' = linked
              /\ \E channels \in MapRange(linked) :
                   out' = [Channels |-> channels,
                           DefaultChannel |-> sv.defaultChannel,
                           Valid |-> TRUE]
              /\ pc' = "done"
  /\ UNCHANGED <<sv, channelBundleVersions, hwc, err, prevOut>>

\* A second generateChannels + linkChannels on the version maps of a render
\* that succeeded, remembering what the first one returned.
Rerun ==
  /\ pc = "done"
  /\ ~prevOut.Valid
  /\ prevOut' = out
  /\ pc' = "generate"
  /\ sv' = [sv EXCEPT !.defaultChannel = ""]
  /\ unlinkedChannels' = <<>>
  /\ unassociatedEdges' = <<>>
  /\ hwc' = InitialHwc
  /\ out' = NoOutput
  /\ UNCHANGED <<channelBundleVersions, err>>

Next ==
  \/ RenderNoBundles
  \/ GetVersionsFromStandardChannels
  \/ GenerateChannels
  \/ LinkChannels

Spec == Init /\ [][Next]_vars

InitRerun == InitWith(MaxRerunBundles)

NextRerun == Next \/ Rerun

SpecRerun == InitRerun /\ [][NextRerun]_vars

\* ------------------------------------------------ reading the result
Done == pc = "done"
Terminal == pc \in {"done", "error", "panic"}

Placements == {unassociatedEdges[i] : i \in 1..Len(unassociatedEdges)}

\* The channel of that name in the value Render returned.
OutChannel(name) ==
  out.Channels[CHOOSE i \in 1..Len(out.Channels) : out.Channels[i].Name = name]

\* The returned channel entry a placement stands for.
EntryOf(t) == OutChannel(t.parent).Entries[t.index + 1]

HasEdges(e) == e.Replaces # "" \/ e.Skips # {}

\* The placements of the tier, stream kind and major version of t, the ones
\* of its Y-stream, and the ones of lower version.
Chain(t) ==
  {u \in Placements : /\ u.arch = t.arch
                      /\ u.kind = t.kind
                      /\ u.version.Major = t.version.Major}
YStream(t) == {u \in Chain(t) : u.version.Minor = t.version.Minor}
Lower(S, t) == {u \in S : LT(u.version, t.version)}
NamesOf(S) == {u.name : u \in S}

\* t is the highest-version entry of its Y-stream.
Closing(t) == \A u \in YStream(t) : ~LT(t.version, u.version)

\* Two bundles of one tier whose versions differ in build metadata only.
Collides(names) ==
  \E a \in names, b \in names :
    /\ a # b
    /\ [VersionOf(a) EXCEPT !.Build = ""] = [VersionOf(b) EXCEPT !.Build = ""]

\* ----------------------------------------------------------------- C1
\* C1 as stated: after linking, a non-empty replaces names an entry of the
\* same channel, of strictly lower version.
C1_ReplacesInSameChannel ==
  Done =>
    \A t \in Placements :
      EntryOf(t).Replaces # "" =>
        \E u \in Placements : /\ u.parent = t.parent
                              /\ u.name = EntryOf(t).Replaces
                              /\ LT(u.version, t.version)

\* C1 as amended: a non-empty replaces names a placement of the same tier,
\* stream kind and major version, of strictly lower version; that placement
\* is in the same channel exactly when the channel is a major-stream channel
\* (in a minor-stream channel it is the closing entry of the previous
\* Y-stream, which lives in another channel).
C1_ReplacesLowerInChain ==
  Done =>
    \A t \in Placements :
      EntryOf(t).Replaces # "" =>
        \E u \in Chain(t) : /\ u.name = EntryOf(t).Replaces
                            /\ LT(u.version, t.version)
                            /\ (u.parent = t.parent) <=> (t.kind = majorStreamType)

C1_Witness ==
  /\ Done
  /\ \E t \in Placements :
       t.kind = minorStreamType /\ EntryOf(t).Replaces # ""
  /\ \E t \in Placements :
       t.kind = majorStreamType /\ EntryOf(t).Replaces # ""

\* ----------------------------------------------------------------- C2
\* The template of the scenario: tier stable, minor streams only, bundles
\* a:1.0.0, b:1.0.1, c:1.1.0.
ExampleA == BundleName(V(1, 0, 0, "", ""))
ExampleB == BundleName(V(1, 0, 1, "", ""))
ExampleC == BundleName(V(1, 1, 0, "", ""))
IsExample ==
  /\ sv.Bundles = [a \in Archetypes |->
                     IF a = stableChannelArchetype
                     THEN {ExampleA, ExampleB, ExampleC} ELSE {}]
  /\ sv.GenerateMinorChannels
  /\ ~sv.GenerateMajorChannels
ExampleEntry(name) ==
  EntryOf(CHOOSE t \in Placements : t.name = name)

\* C2 as stated: the closing entry of a Y-stream skips exactly the lower
\* entries of its own Y-stream (minus the replaces target); in the scenario b
\* has no replaces and skips {a}, c replaces b and skips nothing.
C2_SkipsOwnYStreamOnly ==
  Done =>
    /\ \A t \in Placements :
         Closing(t) =>
           EntryOf(t).Skips =
             NamesOf(Lower(YStream(t), t)) \ {EntryOf(t).Replaces}
    /\ IsExample =>
         /\ ExampleEntry(ExampleB).Replaces = ""
         /\ ExampleEntry(ExampleB).Skips = {ExampleA}
         /\ ExampleEntry(ExampleC).Replaces = ExampleB
         /\ ExampleEntry(ExampleC).Skips = {}

\* C2 as amended: the closing entry of a Y-stream skips exactly the lower
\* entries of its tier, stream kind and major version, those of earlier
\* Y-streams included, minus the replaces target; in the scenario b has no
\* replaces and skips {a}, c replaces b and skips {a}.
C2_SkipsWholeChain ==
  Done =>
    /\ \A t \in Placements :
         Closing(t) =>
           EntryOf(t).Skips =
             NamesOf(Lower(Chain(t), t)) \ {EntryOf(t).Replaces}
    /\ IsExample =>
         /\ ExampleEntry(ExampleB).Replaces = ""
         /\ ExampleEntry(ExampleB).Skips = {ExampleA}
         /\ ExampleEntry(ExampleC).Replaces = ExampleB
         /\ ExampleEntry(ExampleC).Skips = {ExampleA}

C2_Witness == Done /\ IsExample /\ ExampleEntry(ExampleC).Skips # {}

\* ----------------------------------------------------------------- C3
\* The highest-priority tier of the template that holds a bundle, and the
\* name of its bundle of highest version.
TopTier ==
  CHOOSE a \in Archetypes :
    /\ sv.Bundles[a] # {}
    /\ \A b \in Archetypes :
         sv.Bundles[b] # {} => channelPriorities[b] <= channelPriorities[a]
TopBundle ==
  CHOOSE n \in sv.Bundles[TopTier] :
    \A m \in sv.Bundles[TopTier] : ~LT(VersionOf(n), VersionOf(m))

\* C3: after a render that placed a bundle, the default channel is a
\* returned channel of the highest-priority non-empty tier, and it holds that
\* tier's bundle of highest version.
C3_DefaultChannel ==
  Done =>
    \E i \in 1..Len(out.Channels) :
      /\ out.Channels[i].Name = out.DefaultChannel
      /\ \E t \in Placements :
           t.parent = out.DefaultChannel /\ t.arch = TopTier
      /\ \E k \in 1..Len(out.Channels[i].Entries) :
           out.Channels[i].Entries[k].Name = TopBundle

\* ----------------------------------------------------------------- C4
\* C4: a second generateChannels + linkChannels on the same version maps
\* and flags returns what the first one returned: the same channels in the
\* same order, with the same entries and edges, and the same default channel.
C4_Deterministic == (Done /\ prevOut.Valid) => out = prevOut

\* ----------------------------------------------------------------- C5
EntryNames(ch) == [k \in 1..Len(ch.Entries) |-> ch.Entries[k].Name]

Ascending(ch) ==
  \A i, j \in 1..Len(ch.Entries) :
    i < j => LT(VersionOf(ch.Entries[i].Name), VersionOf(ch.Entries[j].Name))

C5_Ascending ==
  /\ pc \in {"link", "done"} =>
       \A i \in 1..Len(unlinkedChannels) : Ascending(unlinkedChannels[i])
  /\ Done => \A i \in 1..Len(out.Channels) : Ascending(out.Channels[i])

C5_LinkKeepsEntries ==
  (pc = "link" /\ pc' = "done") =>
    /\ Len(unlinkedChannels') = Len(unlinkedChannels)
    /\ \A i \in 1..Len(unlinkedChannels) :
         /\ unlinkedChannels'[i].Name = unlinkedChannels[i].Name
         /\ EntryNames(unlinkedChannels'[i]) = EntryNames(unlinkedChannels[i])
    /\ \A i \in 1..Len(unlinkedChannels) :
         \E k \in 1..Len(out'.Channels) :
           /\ out'.Channels[k].Name = unlinkedChannels[i].Name
           /\ EntryNames(out'.Channels[k]) = EntryNames(unlinkedChannels[i])
    /\ Len(out'.Channels) = Len(unlinkedChannels)

\* C5: on a validated template every channel generateChannels builds has
\* its entries in strictly ascending version order, and linkChannels changes
\* neither the order nor the number of the entries of any channel.
C5_AscendingAndKept == []C5_Ascending /\ [][C5_LinkKeepsEntries]_vars

C5_Witness ==
  /\ Done
  /\ \E i \in 1..Len(out.Channels) :
       /\ Len(out.Channels[i].Entries) >= 2
       /\ \E k \in 1..Len(out.Channels[i].Entries) :
            HasEdges(out.Channels[i].Entries[k])

\* ----------------------------------------------------------------- C6
\* C6: after linking, an entry that is not the highest-version entry of its
\* Y-stream has no replaces and no skips.
C6_OnlyClosingEntriesCarryEdges ==
  Done =>
    \A t \in Placements :
      ~Closing(t) => EntryOf(t).Replaces = "" /\ EntryOf(t).Skips = {}

C6_Witness ==
  /\ Done
  /\ \E t \in Placements, u \in Placements :
       /\ u \in YStream(t)
       /\ ~Closing(t)
       /\ Closing(u)
       /\ EntryOf(u).Replaces # ""
       /\ EntryOf(u).Skips # {}

\* ----------------------------------------------------------------- C7
\* The first tier, in extraction order, with a build-metadata collision.
FirstCollidingTier ==
  ExtractionOrder[CHOOSE i \in 1..3 :
    /\ Collides(sv.Bundles[ExtractionOrder[i]])
    /\ \A j \in 1..3 : Collides(sv.Bundles[ExtractionOrder[j]]) => i <= j]

\* C7: when two bundles of a tier differ in build metadata only, extraction
\* fails with the ambiguity error for that tier, generateChannels never runs
\* and Render returns no channel and no default channel; a template without
\* such a pair (empty tiers included) never gets the ambiguity error.
C7_AmbiguousVersionsRejected ==
  /\ (\E a \in Archetypes : Collides(sv.Bundles[a])) =>
       /\ pc \in {"start", "error"}
       /\ pc = "error" => /\ err.kind = "ambiguous"
                          /\ err.tier = FirstCollidingTier
       /\ out = NoOutput
       /\ unlinkedChannels = <<>>
       /\ unassociatedEdges = <<>>
       /\ sv.defaultChannel = ""
  /\ err.kind = "ambiguous" =>
       /\ sv.Bundles[err.tier] # {}
       /\ Collides(sv.Bundles[err.tier])

C7_Witness ==
  /\ pc = "error"
  /\ err.kind = "ambiguous"
  /\ \E a \in Archetypes : sv.Bundles[a] = {}

\* ----------------------------------------------------------------- C8
\* C8: a render that places no bundle (no bundle in any tier, or both
\* stream flags off) ends with the empty-result error and no output, and
\* never gets to the last-entry step of linkChannels with no placement.
C8_EmptyResultError ==
  /\ pc # "panic"
  /\ (Terminal /\ \A a \in Archetypes : sv.Bundles[a] = {}) =>
       pc = "error" /\ err.kind = "noBundles" /\ out = NoOutput
  /\ (Terminal /\ ~sv.GenerateMajorChannels /\ ~sv.GenerateMinorChannels
        /\ err.kind # "ambiguous") =>
       pc = "error" /\ err.kind = "noBundles" /\ out = NoOutput

\* ----------------------------------------------------------------- C9
\* C9: after linking, the replaces target and every skip of an entry are
\* placements of the entry's tier, stream kind and major version, of strictly
\* lower version; the closing entry of the first Y-stream after a tier, kind
\* or major change replaces nothing.
C9_NoEdgeAcrossCoarseBoundary ==
  Done =>
    \A t \in Placements :
      /\ EntryOf(t).Replaces # "" =>
           EntryOf(t).Replaces \in NamesOf(Lower(Chain(t), t))
      /\ EntryOf(t).Skips \subseteq NamesOf(Lower(Chain(t), t))
      /\ (\A u \in Chain(t) : u.version.Minor >= t.version.Minor) =>
           EntryOf(t).Replaces = ""

C9_Witness ==
  /\ Done
  /\ \E t \in Placements, u \in Placements :
       /\ u.arch = t.arch /\ u.kind = t.kind
       /\ u.version.Major < t.version.Major
       /\ EntryOf(t).Skips # {}

\* ---------------------------------------------------------------- C10
\* The placements of a returned channel, its entries that carry an edge, and
\* its minor-version groups.
ChannelPlacements(ch) == {t \in Placements : t.parent = ch.Name}
EdgeCount(ch) ==
  Cardinality({t \in ChannelPlacements(ch) : HasEdges(EntryOf(t))})
MinorGroups(ch) ==
  {<<t.version.Major, t.version.Minor>> : t \in ChannelPlacements(ch)}

\* A Y-stream of one entry that is the lowest version of its tier, stream
\* kind and major version.
LoneFirst(t) == YStream(t) = {t} /\ Lower(Chain(t), t) = {}

\* C10 as stated: in every channel the entries with a replaces or a skip
\* are as many as the minor-version groups of the channel.
C10_EdgesEqualMinorGroups ==
  Done =>
    \A i \in 1..Len(out.Channels) :
      EdgeCount(out.Channels[i]) = Cardinality(MinorGroups(out.Channels[i]))

\* C10 as amended: in every channel the entries with a replaces or a skip
\* are as many as the minor-version groups of the channel, not counting a
\* group of a single entry that is the lowest version of its tier, stream
\* kind and major version (that entry has nothing to replace or skip).
C10_EdgesEqualLinkedMinorGroups ==
  Done =>
    \A i \in 1..Len(out.Channels) :
      EdgeCount(out.Channels[i]) =
        Cardinality(MinorGroups(out.Channels[i]))
          - Cardinality({t \in ChannelPlacements(out.Channels[i]) : LoneFirst(t)})

C10_Witness ==
  /\ Done
  /\ \E i \in 1..Len(out.Channels) :
       /\ Cardinality(MinorGroups(out.Channels[i])) >= 2
       /\ \E t \in ChannelPlacements(out.Channels[i]) : LoneFirst(t)

====
